---- MODULE Spec2Model ----
(***************************************************************************)
(* Model of src/streamlit_app.py, the page "The Port": a Streamlit script  *)
(* that is run from top to bottom once per user interaction.  One action   *)
(* of the model is one run of the script.  The state is the session flag   *)
(* logged_in, the warehouse (the read-only master tables and the           *)
(* sftp_uploads dataset that load jobs write), and what the last run read, *)
(* called and showed.                                                      *)
(***************************************************************************)
EXTENDS Integers, Sequences, FiniteSets, TLC

VARIABLES
    logged_in,          \* st.session_state.logged_in
    rerun,              \* st.rerun() was called: the script restarts at once
    service_account,    \* what loading the configured credentials raises
    master,             \* warehouse: table path -> rows of the master table
    dataset,            \* warehouse: sftp_uploads, table id -> Absent or rows
    clicked,            \* the st.button that is True in the last run
    outcome,            \* how the last run ended
    username_input, password_input,
    selected_table, client_col, start_date, end_date,
    init_error, clients_error, clients, selected_clients,
    query_error, download,
    uploaded_file, raw_columns, df_columns,
    write_disposition, list_error, existing_tables, table_id,
    load_error,
    calls,              \* the warehouse calls of the last run, in order
    messages,           \* st.error / st.warning / st.success of the last run
    controls            \* the controls the last run rendered

vars == <<logged_in, rerun, service_account, master, dataset, clicked, outcome,
          username_input, password_input,
          selected_table, client_col, start_date, end_date,
          init_error, clients_error, clients, selected_clients,
          query_error, download,
          uploaded_file, raw_columns, df_columns,
          write_disposition, list_error, existing_tables, table_id,
          load_error, calls, messages, controls>>

---------------------------------------------------------------------------
(* Bounds *)

MaxDate == 2

(* A date is 1..MaxDate; a client name is a positive number; NULL is 0. *)
NULL == 0
Dates == 1..MaxDate

(* The header of an uploaded CSV file: two column names that hold letters, *)
(* a digit, the underscore, the space, a whitespace character other than   *)
(* the space (the tab), and a punctuation character.                       *)
CsvHeaders == { << <<"a", " ", "b", "-">>, <<"c", "\t", "1", "_">> >> }

(* The text an exception carries; NoError is the call that did not raise. *)
NoError == ""
Errors == {"denied"}

---------------------------------------------------------------------------
(* Configuration and constants of the script *)

SecretUsername == "user"
SecretPassword == "pass"
Typed == {"user", "pass", ""}

PROJECT_ID == "trimark-tdp"
dataset_id == "sftp_uploads"

TableLabels == <<"All Paid Media", "All GA4", "All Leads", "All Form Leads", "All GMB">>

tables == [l \in {TableLabels[i] : i \in 1..Len(TableLabels)} |->
    CASE l = "All Paid Media" -> "trimark-tdp.master.all_paidmedia"
      [] l = "All GA4"        -> "trimark-tdp.master.all_ga4"
      [] l = "All Leads"      -> "trimark-tdp.master.all_leads"
      [] l = "All Form Leads" -> "trimark-tdp.master.all_form_table"
      [] l = "All GMB"        -> "trimark-tdp.master.all_gmb"]

TablePaths == {tables[l] : l \in DOMAIN tables}

ClientColAllLower(label) == "client_name"

ClientCol(label) ==
    IF label \in {"All Leads", "All Form Leads"} THEN "Client_Name" ELSE "client_name"

UploadModes == <<"Create new table", "Append to existing table", "Replace existing table">>

DispositionAllAppend(mode) == "WRITE_APPEND"

DispositionCreateTruncates(mode) ==
    IF mode = "Append to existing table" THEN "WRITE_APPEND" ELSE "WRITE_TRUNCATE"

disposition_map(mode) ==
    CASE mode = "Create new table"         -> "WRITE_EMPTY"
      [] mode = "Append to existing table" -> "WRITE_APPEND"
      [] mode = "Replace existing table"   -> "WRITE_TRUNCATE"

---------------------------------------------------------------------------
(* Helpers *)

Range(s) == {s[i] : i \in DOMAIN s}

(* sorted(...) of a set of values: the ascending sequence of its elements *)
sorted(S) ==
    CHOOSE s \in [1..Cardinality(S) -> S] :
        /\ Range(s) = S
        /\ \A i, j \in 1..Cardinality(S) : i < j => s[i] < s[j]

(* str.replace(' ', '_') *)
ReplaceSpaces(name) == [i \in DOMAIN name |-> IF name[i] = " " THEN "_" ELSE name[i]]

(* \w and \s of Python's re on str *)
IsWordChar(c) == c \in {"a", "b", "c", "1", "_"}
IsWhitespace(c) == c \in {" ", "\t"}

(* re.sub(r'[^\w\s]', '', name): drop every character that is neither a    *)
(* word character nor whitespace                                           *)
RECURSIVE RemoveInvalid(_)
RemoveInvalid(name) ==
    IF name = <<>> THEN <<>>
    ELSE LET c == Head(name)
             rest == RemoveInvalid(Tail(name))
         IN IF IsWordChar(c) \/ IsWhitespace(c) THEN <<c>> \o rest ELSE rest

clean_column_name(column_name) == RemoveInvalid(ReplaceSpaces(column_name))

(* str(table_id) inside the f-string of table_ref: None prints as "None" *)
NoneId == "<None>"
FormatTableId(id) == IF id = NoneId THEN "None" ELSE id

table_ref(id) == [project |-> PROJECT_ID, dataset |-> dataset_id, table |-> FormatTableId(id)]

---------------------------------------------------------------------------
(* The warehouse *)

Row(c, d) == [client |-> c, date |-> d]

(* The contents of the master tables: a NULL client, a NULL date, a table *)
(* without rows and tables with one and with two clients occur.           *)
MasterData == [p \in TablePaths |->
    CASE p = "trimark-tdp.master.all_paidmedia" -> {Row(2, 2), Row(1, 1), Row(NULL, 1)}
      [] p = "trimark-tdp.master.all_ga4"        -> {Row(2, 1), Row(2, 2)}
      [] p = "trimark-tdp.master.all_leads"      -> {Row(1, 2), Row(1, NULL), Row(1, 1)}
      [] p = "trimark-tdp.master.all_form_table" -> {}
      [] p = "trimark-tdp.master.all_gmb"        -> {Row(1, 1), Row(NULL, NULL)}]

(* SELECT DISTINCT col FROM table WHERE col IS NOT NULL *)
ClientListQuery(path) == {r.client : r \in {x \in master[path] : x.client # NULL}}

(* clients_df[client_col].dropna().unique() *)
DropNa(values) == values \ {NULL}

(* SELECT * FROM table WHERE col IN UNNEST(@clients)                       *)
(*                       AND DATE(date) BETWEEN @start_date AND @end_date  *)
FilteredQuery(path, selected, start, end) ==
    {r \in master[path] :
        /\ r.client \in selected
        /\ r.date # NULL
        /\ start <= r.date
        /\ r.date <= end}

(* sftp_uploads: the table ids a load job can name, Absent for no table *)
Absent == "absent"
NewTableNames == {"your_table_name"}
TableIds == NewTableNames \cup {"None"}
OldRows == {"old"}
UploadRows == {"new"}

Exists(ds, id) == ds[id].state # Absent
Table(rows) == [state |-> "table", rows |-> rows]
NoTable == [state |-> Absent, rows |-> {}]

(* client.list_tables(dataset_ref), as [table.table_id for table in ...] *)
TableIdOrder == <<"None", "your_table_name">>
ListTables(ds) == SelectSeq(TableIdOrder, LAMBDA id : Exists(ds, id))

(* The load job of the warehouse under a write disposition.  WRITE_EMPTY   *)
(* writes only if the table is absent or empty, WRITE_APPEND adds to the   *)
(* table, WRITE_TRUNCATE overwrites it; a missing table is created.  err   *)
(* is a failure of the service itself.                                     *)
LoadJob(ds, ref, disposition, rows, err) ==
    LET id == ref.table
        old == ds[id]
    IN  IF err # NoError THEN [error |-> err, dataset |-> ds]
        ELSE IF disposition = "WRITE_EMPTY" /\ Exists(ds, id) /\ old.rows # {}
        THEN [error |-> "duplicate", dataset |-> ds]
        ELSE IF disposition = "WRITE_APPEND"
        THEN [error |-> NoError, dataset |-> [ds EXCEPT ![id] = Table(old.rows \cup rows)]]
        ELSE [error |-> NoError, dataset |-> [ds EXCEPT ![id] = Table(rows)]]

---------------------------------------------------------------------------
(* The blocks of the script: the calls each submits, the messages it shows *)

MayFail == {NoError} \cup Errors

Msg(kind, prefix, text) == [kind |-> kind, prefix |-> prefix, text |-> text]

(* init_bigquery_client(): the credentials of the configuration load, or *)
(* the exception is caught and None returned                             *)
init_bigquery_client == service_account

InitCalls == <<[op |-> "init_client", project |-> PROJECT_ID]>>

InitMessages(err) ==
    IF err # NoError THEN <<Msg("error", "Error initializing BigQuery client: ", err)>> ELSE <<>>

(* client_query, lines 94-96 *)
ClientListCalls(path, col) == <<[op |-> "client_list", table |-> path, column |-> col]>>

ClientListMessages(err) ==
    IF err # NoError THEN <<Msg("error", "Could not fetch clients: ", err)>> ELSE <<>>

(* query and job_config, lines 110-122 *)
queryFirstTable(path, col, selected, start, end) ==
    [op |-> "query", table |-> tables[TableLabels[1]], column |-> col, clients |-> selected,
     start_date |-> start, end_date |-> end]

query(path, col, selected, start, end) ==
    [op |-> "query", table |-> path, column |-> col, clients |-> selected,
     start_date |-> start, end_date |-> end]

ExecQuery(call) == FilteredQuery(call.table, call.clients, call.start_date, call.end_date)

(* if st.button("Run Query and Download"): if selected_clients: ... *)
RunQueryCallsUnguarded(btn, selected, call) == IF btn = "run" THEN <<call>> ELSE <<>>
RunQueryCallsRetry(btn, selected, call) ==
    IF btn = "run" /\ selected # {} THEN <<call, call>> ELSE <<>>

RunQueryCalls(btn, selected, call) ==
    IF btn = "run" /\ selected # {} THEN <<call>> ELSE <<>>

RunQueryMessages(btn, selected, err) ==
    IF btn # "run" THEN <<>>
    ELSE IF selected = {} THEN <<Msg("warning", "Please select at least one client.", "")>>
    ELSE IF err # NoError THEN <<Msg("error", "Query failed: ", err)>>
    ELSE <<>>

ListCalls == <<[op |-> "list_tables", project |-> PROJECT_ID, dataset |-> dataset_id]>>

ListMessages(err) ==
    IF err # NoError THEN <<Msg("warning", "Could not fetch existing tables: ", err)>> ELSE <<>>

(* table_ref and job_config, lines 190-191, and the call of line 194 *)
load_table_from_dataframe(columns, id, mode) ==
    [op |-> "load", columns |-> columns, table_ref |-> table_ref(id),
     write_disposition |-> disposition_map(mode)]

UploadCalls(btn, call) == IF btn = "upload" THEN <<call>> ELSE <<>>

UploadMessages(btn, id, mode, err) ==
    IF btn # "upload" THEN <<>>
    ELSE IF err # NoError THEN <<Msg("error", "Upload failed: ", err)>>
    ELSE <<Msg("success", "Uploaded to " \o table_ref(id).table \o " using mode: ", mode)>>

---------------------------------------------------------------------------
(* What a run leaves of the blocks it does not reach *)

NoDownload == [offered |-> FALSE, rows |-> {}]

NoLoginForm == username_input' = "" /\ password_input' = ""

NoTop ==
    /\ selected_table' = ""
    /\ client_col' = ""
    /\ start_date' = NULL
    /\ end_date' = NULL
    /\ init_error' = NoError

NoQuerySection ==
    /\ clients_error' = NoError
    /\ clients' = <<>>
    /\ selected_clients' = {}
    /\ query_error' = NoError
    /\ download' = NoDownload

NoUploadSettings ==
    /\ raw_columns' = <<>>
    /\ df_columns' = <<>>
    /\ write_disposition' = ""
    /\ list_error' = NoError
    /\ existing_tables' = <<>>
    /\ table_id' = NoneId
    /\ load_error' = NoError
    /\ dataset' = dataset

NoUploadSection == uploaded_file' = "none" /\ NoUploadSettings

---------------------------------------------------------------------------
(* Init: a new session before the first run of the script *)

Init ==
    /\ logged_in = FALSE
    /\ rerun = FALSE
    /\ service_account \in MayFail
    /\ master = MasterData
    /\ dataset \in {ds \in [TableIds -> {NoTable, Table({}), Table(OldRows)}] :
                        ds["None"] = NoTable}
    /\ clicked = "none"
    /\ outcome = "none"
    /\ username_input = "" /\ password_input = ""
    /\ selected_table = "" /\ client_col = ""
    /\ start_date = NULL /\ end_date = NULL
    /\ init_error = NoError
    /\ clients_error = NoError /\ clients = <<>> /\ selected_clients = {}
    /\ query_error = NoError /\ download = NoDownload
    /\ uploaded_file = "none" /\ raw_columns = <<>> /\ df_columns = <<>>
    /\ write_disposition = "" /\ list_error = NoError
    /\ existing_tables = <<>> /\ table_id = NoneId /\ load_error = NoError
    /\ calls = <<>> /\ messages = <<>> /\ controls = {}

---------------------------------------------------------------------------
(* if not st.session_state.logged_in: login(); st.stop() *)

CredentialsMatchEither(u, p) == u = SecretUsername \/ p = SecretPassword

CredentialsMatch(u, p) == u = SecretUsername /\ p = SecretPassword

login(btn, u, p) ==
    /\ clicked' = btn
    /\ username_input' = u
    /\ password_input' = p
    /\ IF btn = "login" /\ CredentialsMatch(u, p)
       THEN /\ logged_in' = TRUE
            /\ rerun' = TRUE
            /\ outcome' = "rerun"
            /\ messages' = <<>>
       ELSE /\ logged_in' = logged_in
            /\ rerun' = FALSE
            /\ outcome' = "stopped"
            /\ messages' = IF btn = "login"
                           THEN <<Msg("error", "Incorrect username or password", "")>>
                           ELSE <<>>
    /\ controls' = {"login_button"}
    /\ calls' = <<>>
    /\ NoTop /\ NoQuerySection /\ NoUploadSection
    /\ UNCHANGED <<service_account, master>>

---------------------------------------------------------------------------
(* The widgets.  A widget returns the value the user left in it; a widget  *)
(* that the last run did not render, or whose options changed, returns its *)
(* default.                                                                *)

(* The values the widgets hold when a run starts *)
Widgets ==
    [table |-> selected_table, start |-> start_date, end |-> end_date,
     chosen |-> selected_clients, file |-> uploaded_file, header |-> raw_columns,
     mode |-> write_disposition, id |-> table_id]

(* datetime(2024, 1, 1) and datetime.today(): the first and the last date *)
DefaultWidgets ==
    [table |-> TableLabels[1], start |-> 1, end |-> MaxDate,
     chosen |-> {}, file |-> "none", header |-> <<>>,
     mode |-> UploadModes[1], id |-> "your_table_name"]

(* st.multiselect("Select one or more Clients", clients) *)
multiselect(w, options) ==
    IF "client_multiselect" \in controls /\ options = clients THEN w.chosen ELSE {}

(* st.file_uploader("Upload CSV") *)
file_uploader(w) == IF "file_uploader" \in controls THEN w.file ELSE "none"

(* st.selectbox("Choose upload mode", options) *)
mode_selectbox(w) == IF "upload_button" \in controls THEN w.mode ELSE UploadModes[1]

(* st.text_input("New Table Name ...", "your_table_name") *)
text_input(w) ==
    IF "upload_button" \in controls /\ write_disposition = "Create new table"
    THEN w.id ELSE "your_table_name"

(* st.selectbox("Select Existing Table", existing_tables): None without options *)
table_selectbox(w, options) ==
    IF options = <<>> THEN NoneId
    ELSE IF /\ "upload_button" \in controls
            /\ write_disposition # "Create new table"
            /\ options = existing_tables
    THEN w.id ELSE options[1]

---------------------------------------------------------------------------
(* The page behind the login, lines 40-198 *)

(* lines 93-131 *)
QuerySection(btn, w) ==
    /\ \E err \in MayFail : clients_error' = err
    /\ clients' = IF clients_error' = NoError
                  THEN sorted(DropNa(ClientListQuery(tables[selected_table'])))
                  ELSE <<>>
    /\ selected_clients' = IF clients_error' = NoError THEN multiselect(w, clients') ELSE {}
    /\ LET submitted == RunQueryCalls(btn, selected_clients',
                            query(tables[selected_table'], client_col',
                                  selected_clients', start_date', end_date'))
       IN  /\ IF submitted # <<>>
              THEN \E err \in MayFail : query_error' = err
              ELSE query_error' = NoError
           /\ download' = IF submitted # <<>> /\ query_error' = NoError
                          THEN [offered |-> TRUE, rows |-> ExecQuery(submitted[1])]
                          ELSE NoDownload

(* lines 145-198 *)
UploadSection(btn, w) ==
    /\ uploaded_file' = file_uploader(w)
    /\ IF uploaded_file' # "csv"
       THEN NoUploadSettings
       ELSE /\ raw_columns' = w.header
            /\ df_columns' = [i \in DOMAIN raw_columns' |-> clean_column_name(raw_columns'[i])]
            /\ write_disposition' = mode_selectbox(w)
            /\ \E err \in MayFail : list_error' = err
            /\ existing_tables' = IF list_error' = NoError THEN ListTables(dataset) ELSE <<>>
            /\ table_id' = IF write_disposition' = "Create new table"
                           THEN text_input(w)
                           ELSE table_selectbox(w, existing_tables')
            /\ LET submitted == UploadCalls(btn,
                        load_table_from_dataframe(df_columns', table_id', write_disposition'))
               IN  IF submitted = <<>>
                   THEN load_error' = NoError /\ dataset' = dataset
                   ELSE \E err \in MayFail :
                        LET job == LoadJob(dataset, submitted[1].table_ref,
                                       submitted[1].write_disposition, UploadRows, err)
                        IN  load_error' = job.error /\ dataset' = job.dataset

Script(btn, w) ==
    /\ clicked' = btn
    /\ NoLoginForm
    /\ rerun' = FALSE
    /\ selected_table' = w.table
    /\ client_col' = ClientCol(selected_table')
    /\ start_date' = w.start
    /\ end_date' = w.end
    /\ init_error' = init_bigquery_client
    /\ IF init_error' # NoError
       THEN /\ NoQuerySection /\ NoUploadSection
            /\ outcome' = "stopped"
            /\ calls' = InitCalls
            /\ messages' = InitMessages(init_error')
            /\ controls' = {"table_select"}
       ELSE /\ QuerySection(btn, w)
            /\ UploadSection(btn, w)
            /\ outcome' = IF uploaded_file' = "unreadable" THEN "uncaught" ELSE "done"
            /\ calls' = InitCalls
                   \o ClientListCalls(tables[selected_table'], client_col')
                   \o RunQueryCalls(btn, selected_clients',
                            query(tables[selected_table'], client_col',
                                  selected_clients', start_date', end_date'))
                   \o (IF uploaded_file' = "csv" THEN ListCalls ELSE <<>>)
                   \o (IF uploaded_file' = "csv"
                       THEN UploadCalls(btn, load_table_from_dataframe(
                                df_columns', table_id', write_disposition'))
                       ELSE <<>>)
            /\ messages' = ClientListMessages(clients_error')
                   \o RunQueryMessages(btn, selected_clients', query_error')
                   \o (IF uploaded_file' = "csv"
                       THEN ListMessages(list_error')
                            \o UploadMessages(btn, table_id', write_disposition', load_error')
                       ELSE <<>>)
            /\ controls' = {"table_select", "run_button", "file_uploader"}
                   \cup (IF clients_error' = NoError THEN {"client_multiselect"} ELSE {})
                   \cup (IF download'.offered THEN {"download_button"} ELSE {})
                   \cup (IF uploaded_file' = "csv" THEN {"upload_button"} ELSE {})
    /\ UNCHANGED <<logged_in, service_account, master>>

---------------------------------------------------------------------------
(* One action per way a run of the script is started *)

(* The page is opened, or a login field is edited, while logged out *)
ShowLogin == ~logged_in /\ \E u, p \in Typed : login("none", u, p)

ClickLogin ==
    /\ ~logged_in
    /\ "login_button" \in controls
    /\ login("login", username_input, password_input)

(* The restart st.rerun() asks for after a successful login *)
Rerun == logged_in /\ rerun /\ Script("none", DefaultWidgets)

Shown(control) == logged_in /\ ~rerun /\ control \in controls

SelectTable ==
    /\ Shown("table_select")
    /\ \E i \in DOMAIN TableLabels :
            /\ TableLabels[i] # selected_table
            /\ Script("none", [Widgets EXCEPT !.table = TableLabels[i]])

SetStartDate ==
    /\ Shown("table_select")
    /\ \E d \in Dates \ {start_date} : Script("none", [Widgets EXCEPT !.start = d])

SetEndDate ==
    /\ Shown("table_select")
    /\ \E d \in Dates \ {end_date} : Script("none", [Widgets EXCEPT !.end = d])

SelectClients ==
    /\ Shown("client_multiselect")
    /\ \E chosen \in (SUBSET Range(clients)) \ {selected_clients} :
            Script("none", [Widgets EXCEPT !.chosen = chosen])

UploadFile ==
    /\ Shown("file_uploader")
    /\ \/ \E f \in {"none", "unreadable"} \ {uploaded_file} :
            Script("none", [Widgets EXCEPT !.file = f, !.header = <<>>])
       \/ \E header \in CsvHeaders \ {raw_columns} :
            Script("none", [Widgets EXCEPT !.file = "csv", !.header = header])

ChooseMode ==
    /\ Shown("upload_button")
    /\ \E i \in DOMAIN UploadModes :
            /\ UploadModes[i] # write_disposition
            /\ Script("none", [Widgets EXCEPT !.mode = UploadModes[i]])

EnterTableName ==
    /\ Shown("upload_button")
    /\ write_disposition = "Create new table"
    /\ \E name \in NewTableNames : Script("none", [Widgets EXCEPT !.id = name])

SelectExistingTable ==
    /\ Shown("upload_button")
    /\ write_disposition # "Create new table"
    /\ \E i \in DOMAIN existing_tables :
            /\ existing_tables[i] # table_id
            /\ Script("none", [Widgets EXCEPT !.id = existing_tables[i]])

ClickDownload == Shown("download_button") /\ Script("none", Widgets)

ClickRunQuery == Shown("run_button") /\ Script("run", Widgets)

ClickUpload == Shown("upload_button") /\ Script("upload", Widgets)

Next ==
    \/ ShowLogin \/ ClickLogin \/ Rerun
    \/ SelectTable \/ SetStartDate \/ SetEndDate \/ SelectClients
    \/ UploadFile \/ ChooseMode \/ EnterTableName \/ SelectExistingTable
    \/ ClickDownload \/ ClickRunQuery \/ ClickUpload

Spec == Init /\ [][Next]_vars

---------------------------------------------------------------------------
(* Properties *)

CallsOf(op) == SelectSeq(calls, LAMBDA c : c.op = op)

ShowsIn(shown, kind, prefix, text) ==
    \E i \in DOMAIN shown : shown[i] = Msg(kind, prefix, text)

Shows(kind, prefix, text) == ShowsIn(messages, kind, prefix, text)

(* C1: every load job a click of 'Upload to BigQuery' submits carries the  *)
(* write disposition of the upload mode chosen in that run: Create gives   *)
(* WRITE_EMPTY, Append WRITE_APPEND, Replace WRITE_TRUNCATE; a click that  *)
(* reaches the button submits such a job, and no run without the click     *)
(* submits one.                                                            *)
C1_WriteModeOfUpload ==
    /\ \A i \in DOMAIN calls : calls[i].op = "load" =>
        /\ clicked = "upload"
        /\ \/ write_disposition = "Create new table"
                /\ calls[i].write_disposition = "WRITE_EMPTY"
           \/ write_disposition = "Append to existing table"
                /\ calls[i].write_disposition = "WRITE_APPEND"
           \/ write_disposition = "Replace existing table"
                /\ calls[i].write_disposition = "WRITE_TRUNCATE"
    /\ (clicked = "upload" /\ uploaded_file = "csv") => CallsOf("load") # <<>>

C1_Witness ==
    /\ clicked = "upload"
    /\ write_disposition = "Replace existing table"
    /\ CallsOf("load") # <<>>
    /\ CallsOf("load")[1].write_disposition = "WRITE_TRUNCATE"

(* C2: the column names shown, and the column names of every load job, are *)
(* the uploaded names with every space replaced by an underscore and every *)
(* character that is not a letter, digit or underscore removed.            *)
IsLetterDigitUnderscore(c) == c \in {"a", "b", "c", "1", "_"}

RECURSIVE KeepValid(_)
KeepValid(name) ==
    IF name = <<>> THEN <<>>
    ELSE IF IsLetterDigitUnderscore(Head(name))
         THEN <<Head(name)>> \o KeepValid(Tail(name))
         ELSE KeepValid(Tail(name))

SanitizedAsClaimed(header) ==
    [i \in DOMAIN header |->
        KeepValid([j \in DOMAIN header[i] |->
                      IF header[i][j] = " " THEN "_" ELSE header[i][j]])]

C2_ColumnsSanitized ==
    uploaded_file = "csv" =>
        /\ df_columns = SanitizedAsClaimed(raw_columns)
        /\ \A i \in DOMAIN calls : calls[i].op = "load" =>
                calls[i].columns = SanitizedAsClaimed(raw_columns)

(* C3: a run that starts logged out makes no warehouse call and renders    *)
(* nothing but the login form; logged_in becomes true only in a run with   *)
(* the Login button clicked and both inputs equal to the secrets; a click  *)
(* with any other input leaves it false.                                   *)
C3_LoginGate ==
    /\ [](~logged_in => (calls = <<>> /\ controls \subseteq {"login_button"}))
    /\ [][~logged_in =>
            /\ calls' = <<>>
            /\ controls' \subseteq {"login_button"}
            /\ dataset' = dataset
            /\ logged_in' =>
                /\ clicked' = "login"
                /\ username_input' = SecretUsername
                /\ password_input' = SecretPassword
            /\ (clicked' = "login" /\ ~( /\ username_input' = SecretUsername
                                         /\ password_input' = SecretPassword))
                => (~logged_in' /\ ShowsIn(messages', "error", "Incorrect username or password", ""))
         ]_vars

C3_Witness ==
    /\ ~logged_in
    /\ clicked = "login"
    /\ username_input = SecretUsername
    /\ password_input # SecretPassword
    /\ outcome = "stopped"

(* C4: every failing step of the page after login ends the run with a      *)
(* message that carries the error's text, and no run ends with an          *)
(* exception nobody caught.                                                *)
C4_AllFailuresShown ==
    /\ outcome # "uncaught"
    /\ init_error # NoError =>
            Shows("error", "Error initializing BigQuery client: ", init_error)
    /\ clients_error # NoError => Shows("error", "Could not fetch clients: ", clients_error)
    /\ query_error # NoError => Shows("error", "Query failed: ", query_error)
    /\ list_error # NoError =>
            Shows("warning", "Could not fetch existing tables: ", list_error)
    /\ load_error # NoError => Shows("error", "Upload failed: ", load_error)

(* C5: a click of 'Run Query and Download' with a client selected and      *)
(* start <= end, whose query the warehouse answers, offers a file whose    *)
(* rows are exactly the rows of the selected table with a selected client  *)
(* and a date from start to end inclusive; the one query submitted names   *)
(* the table and the client column of the current table selection.         *)
C5_DownloadMatchesFilter ==
    (clicked = "run" /\ selected_clients # {} /\ start_date <= end_date
        /\ query_error = NoError) =>
        /\ download.offered
        /\ "download_button" \in controls
        /\ download.rows =
                {r \in master[tables[selected_table]] :
                    /\ r.client \in selected_clients
                    /\ r.date \in start_date..end_date}
        /\ Len(CallsOf("query")) = 1
        /\ CallsOf("query")[1].table = tables[selected_table]
        /\ CallsOf("query")[1].column =
                (IF selected_table \in {"All Leads", "All Form Leads"}
                 THEN "Client_Name" ELSE "client_name")

C5_Witness ==
    /\ clicked = "run"
    /\ selected_table = "All Leads"
    /\ start_date = 2 /\ end_date = 2
    /\ selected_clients = {1}
    /\ download.offered
    /\ download.rows = {Row(1, 2)}

(* C6: the client options shown are exactly the distinct non-null values   *)
(* of the client column of the table selected in this run, in ascending    *)
(* order; the column asked for is Client_Name for 'All Leads' and 'All     *)
(* Form Leads' and client_name for the other three tables.                 *)
C6_ClientOptions ==
    /\ Len(TableLabels) = 5
    /\ "client_multiselect" \in controls =>
        /\ selected_table \in DOMAIN tables
        /\ Range(clients) = {r.client : r \in master[tables[selected_table]]} \ {NULL}
        /\ \A i, j \in DOMAIN clients : i < j => clients[i] < clients[j]
        /\ selected_clients \subseteq Range(clients)
        /\ Len(CallsOf("client_list")) = 1
        /\ CallsOf("client_list")[1].table = tables[selected_table]
        /\ CallsOf("client_list")[1].column =
                (IF selected_table \in {"All Leads", "All Form Leads"}
                 THEN "Client_Name" ELSE "client_name")

C6_Witness ==
    /\ "client_multiselect" \in controls
    /\ selected_table = "All Leads"
    /\ clients = <<1>>
    /\ CallsOf("client_list")[1].column = "Client_Name"
    /\ selected_clients = {1}

(* C7: a run submits at most one filtered query, and only when 'Run Query  *)
(* and Download' was clicked; at most one load job, and only when 'Upload  *)
(* to BigQuery' was clicked: a failed call is not attempted again.         *)
C7_NoRetry ==
    /\ Len(CallsOf("query")) <= (IF clicked = "run" THEN 1 ELSE 0)
    /\ Len(CallsOf("load")) <= (IF clicked = "upload" THEN 1 ELSE 0)

C7_Witness ==
    /\ clicked = "run"
    /\ query_error # NoError
    /\ Len(CallsOf("query")) = 1

(* C8: a click of 'Run Query and Download' with no client selected submits *)
(* no filtered query and offers no download; the warning 'Please select at *)
(* least one client.' is shown.                                            *)
C8_NoClientNoQuery ==
    (clicked = "run" /\ selected_clients = {}) =>
        /\ CallsOf("query") = <<>>
        /\ ~download.offered
        /\ "download_button" \notin controls
        /\ Shows("warning", "Please select at least one client.", "")

C8_Witness ==
    /\ clicked = "run"
    /\ clients_error # NoError
    /\ selected_clients = {}
    /\ Shows("warning", "Please select at least one client.", "")

(* C9: in Append and Replace mode the table of every submitted load job is *)
(* one of the tables listed in this run; no load job is submitted for a    *)
(* missing (None) table name.                                              *)
C9_TargetIsListed ==
    \A i \in DOMAIN calls :
        (calls[i].op = "load" /\ write_disposition # "Create new table") =>
            /\ table_id # NoneId
            /\ calls[i].table_ref.table \in Range(existing_tables)

(* C10: a load job in Create mode that names a table holding rows fails,   *)
(* shows 'Upload failed' and leaves the rows as they were; the rows of a   *)
(* table that holds rows change only by an upload in Append mode, which    *)
(* adds the uploaded rows, or in Replace mode, which leaves the uploaded   *)
(* rows alone.                                                             *)
C10_CreateKeepsExisting ==
    [][\A id \in TableIds : (Exists(dataset, id) /\ dataset[id].rows # {}) =>
        /\ (/\ clicked' = "upload"
            /\ write_disposition' = "Create new table"
            /\ uploaded_file' = "csv"
            /\ FormatTableId(table_id') = id)
            => /\ load_error' # NoError
               /\ ShowsIn(messages', "error", "Upload failed: ", load_error')
               /\ dataset'[id] = dataset[id]
        /\ dataset'[id] # dataset[id] =>
            /\ clicked' = "upload"
            /\ FormatTableId(table_id') = id
            /\ \/ /\ write_disposition' = "Append to existing table"
                  /\ dataset'[id] = Table(dataset[id].rows \cup UploadRows)
               \/ /\ write_disposition' = "Replace existing table"
                  /\ dataset'[id] = Table(UploadRows)
    ]_vars

C10_Witness ==
    /\ clicked = "upload"
    /\ write_disposition = "Create new table"
    /\ table_id = "your_table_name"
    /\ load_error = "duplicate"
    /\ Shows("error", "Upload failed: ", "duplicate")
    /\ dataset["your_table_name"] = Table(OldRows)

====
